---- MODULE Spec2Model ----
(***************************************************************************)
(* Model of js/app.js: the AR furniture viewer.  The state is the closure  *)
(* state of setupXR (hitTestSourceRequested, hitTestSource, chair), the    *)
(* closure state of every initAR invocation (currentSession, chair), the   *)
(* scene's placeable objects, the reticle, the renderer's animation loop   *)
(* and XR session, and the asynchronous operations in flight (loads,       *)
(* session requests, hit-test-source acquisitions).  Every action is one   *)
(* run-to-completion step of the event loop: an event handler or the       *)
(* continuation of an await.                                               *)
(***************************************************************************)
EXTENDS Integers, Sequences, FiniteSets, TLC

\* ---- bounds of the model ----
MaxClicks == 2      \* trigger clicks
MaxAcq == 2         \* invocations of requestHitTestSource not yet rejected
MaxCoord == 1       \* positions are 0..MaxCoord
MaxRot == 1         \* orientations are 0..MaxRot
MaxChairId == 2     \* data-chair-id values 1..MaxChairId
MaxResults == 1     \* length of a hit-test result list

\* ---- JavaScript values ----
NULL == 0
UNDEFINED == 0 - 1

Truthy(v) == v # NULL /\ v # UNDEFINED

ClickIds == 1..MaxClicks
\* a session is granted to the request of one click, so there are no more
\* sessions than clicks
SessionIds == 1..MaxClicks
ChairIds == 1..MaxChairId
Positions == 0..MaxCoord
Rotations == 0..MaxRot

\* a 4x4 rigid transform: its translation part and its rotation part
Pose == [pos : Positions, rot : Rotations]
Identity == [pos |-> 0, rot |-> 0]

\* what XRHitTestResult.getPose returns when it has no pose to report: null
NullPose == [pos |-> UNDEFINED, rot |-> UNDEFINED]

\* a hit-test result, given by what its getPose(referenceSpace) returns
HitTestResults == Pose \cup {NullPose}

\* the hit-test result lists a frame can report
ResultLists == UNION {[1..n -> HitTestResults] : n \in 0..MaxResults}

VARIABLES
    initPc,                 \* position of initApp: "setEnvironment", "loadReticle", "ready"
    environment,            \* setEnvironment: "pending", "set" (scene.environment assigned) or "failed"
    reticle,                \* the marker: [loaded, visible, matrix]
    hitTestSourceRequested, \* setupXR closure: the latch
    hitTestSource,          \* setupXR closure: NULL or the session the source belongs to
    chair,                  \* setupXR closure: NULL, UNDEFINED or an object
    objs,                   \* the object each click loads: [state, model, visible, position, rotation, inScene]
    ar,                     \* the initAR closure of each click: [pc, currentSession, chair]
    nClicks,                \* clicks so far
    nSessions,              \* sessions granted so far
    xrSession,              \* renderer.xr.getSession(): NULL or the active session
    animationLoop,          \* renderer's animation loop is bound to render
    acq,                    \* requestHitTestSource invocations of each session, by stage
    htListeners,            \* sessions carrying the 'end' listener of requestHitTestSource
    lastQuery,              \* history: outcome of the latest frame.getHitTestResults
    lastHitPose,            \* history: the latest pose a hit-test result reported, NullPose before any
    lastQuerySession,       \* history: session of the latest frame.getHitTestResults that returned
    overlapped,             \* history: a click arrived while an earlier click's load was pending
    placements,             \* history: onSelect has placed each object "never", "once" or "again"
    fault                   \* exception thrown by the latest handler, "none" if it returned

vars == <<initPc, environment, reticle, hitTestSourceRequested, hitTestSource, chair,
          objs, ar, nClicks, nSessions, xrSession, animationLoop, acq, htListeners,
          lastQuery, lastHitPose, lastQuerySession, overlapped, placements, fault>>

startupVars == <<initPc, environment>>
xrVars == <<hitTestSourceRequested, hitTestSource, acq, htListeners>>
histVars == <<lastQuery, lastHitPose, lastQuerySession, overlapped, placements>>

NoObj == [state |-> "unused", model |-> 0, visible |-> FALSE, position |-> 0,
          rotation |-> 0, inScene |-> FALSE]
NoAR == [pc |-> "none", currentSession |-> NULL, chair |-> NULL]
\* per session: invocations awaiting requestReferenceSpace, awaiting
\* session.requestHitTestSource, and those whose source request has settled
NoAcq == [refSpace |-> 0, source |-> 0, settled |-> 0]

Init ==
    /\ initPc = "setEnvironment"
    /\ environment = "pending"
    /\ reticle = [loaded |-> FALSE, visible |-> FALSE, matrix |-> Identity]
    /\ hitTestSourceRequested = FALSE
    /\ hitTestSource = NULL
    /\ chair = NULL
    /\ objs = [k \in ClickIds |-> NoObj]
    /\ ar = [k \in ClickIds |-> NoAR]
    /\ nClicks = 0
    /\ nSessions = 0
    /\ xrSession = NULL
    /\ animationLoop = FALSE
    /\ acq = [s \in SessionIds |-> NoAcq]
    /\ htListeners = {}
    /\ lastQuery = "none"
    /\ lastHitPose = NullPose
    /\ lastQuerySession = NULL
    /\ overlapped = FALSE
    /\ placements = [k \in ClickIds |-> "never"]
    /\ fault = "none"

\* ---- startup: initApp ----

\* variant: initApp goes on to loadReticle without awaiting setEnvironment
setEnvironment_NotAwaited ==
    /\ initPc = "setEnvironment"
    /\ initPc' = "loadReticle"
    /\ fault' = "none"
    /\ UNCHANGED <<environment, reticle, chair, objs, ar, nClicks, nSessions, xrSession,
                   animationLoop>>
    /\ UNCHANGED <<xrVars, histVars>>

\* setEnvironment settles: the texture loaded, or the failure was caught and logged
setEnvironment ==
    /\ initPc = "setEnvironment"
    /\ \E ok \in BOOLEAN : environment' = IF ok THEN "set" ELSE "failed"
    /\ initPc' = "loadReticle"
    /\ fault' = "none"
    /\ UNCHANGED <<reticle, chair, objs, ar, nClicks, nSessions, xrSession, animationLoop>>
    /\ UNCHANGED <<xrVars, histVars>>

\* loadReticle settles; initApp then runs setupXR and attaches the click listeners
loadReticle ==
    /\ initPc = "loadReticle"
    /\ \E ok \in BOOLEAN :
         reticle' = [loaded |-> ok, visible |-> FALSE, matrix |-> Identity]
    /\ initPc' = "ready"
    /\ hitTestSourceRequested' = FALSE
    /\ hitTestSource' = NULL
    /\ chair' = NULL
    /\ fault' = "none"
    /\ UNCHANGED <<environment, objs, ar, nClicks, nSessions, xrSession, animationLoop,
                   acq, htListeners, histVars>>

\* ---- the click handler, loadChair and initAR ----

\* a trigger element is clicked: the handler reads data-chair-id and awaits loadChair
clickHandler ==
    /\ initPc = "ready"
    /\ nClicks < MaxClicks
    /\ \E id \in ChairIds :
         objs' = [objs EXCEPT ![nClicks + 1] = [NoObj EXCEPT !.state = "loading", !.model = id]]
    /\ nClicks' = nClicks + 1
    /\ overlapped' = (overlapped \/ \E k \in ClickIds : objs[k].state = "loading")
    /\ fault' = "none"
    /\ UNCHANGED <<startupVars, reticle, chair, ar, nSessions, xrSession, animationLoop>>
    /\ UNCHANGED <<xrVars, lastQuery, lastHitPose, lastQuerySession, placements>>

\* what loadChair does to the object of click k, and what it returns
loadChairObject(o, ok) ==
    IF ok THEN [o EXCEPT !.state = "loaded", !.visible = FALSE, !.inScene = TRUE]
          ELSE [o EXCEPT !.state = "failed"]

loadChairResult(k, ok) == IF ok THEN k ELSE UNDEFINED

setChair(newChair) == newChair

\* navigator.xr.requestSession rejects at once while an immersive session is
\* active or another request for one is pending
ImmersiveBusy == xrSession # NULL \/ \E j \in ClickIds : ar[j].pc = "requesting"

\* initAR up to its first await: a fresh closure whose currentSession is null
initAR(chairArg, busy) ==
    LET currentSession == NULL
    IN  IF currentSession = NULL
        THEN [pc |-> IF busy THEN "rejected" ELSE "requesting",
              currentSession |-> currentSession, chair |-> chairArg]
        ELSE [pc |-> "ending", currentSession |-> currentSession, chair |-> chairArg]

\* variant: a failed load rejects, so the click handler stops at its await
loadChair_Rethrow(k) ==
    /\ objs[k].state = "loading"
    /\ \E ok \in BOOLEAN :
         /\ objs' = [objs EXCEPT ![k] = loadChairObject(@, ok)]
         /\ chair' = IF ok THEN setChair(loadChairResult(k, ok)) ELSE chair
         /\ ar' = IF ok THEN [ar EXCEPT ![k] = initAR(loadChairResult(k, ok), ImmersiveBusy)]
                        ELSE ar
         /\ animationLoop' = IF ok THEN TRUE ELSE animationLoop
         /\ fault' = IF ~ok \/ ImmersiveBusy THEN "unhandledrejection" ELSE "none"
    /\ UNCHANGED <<startupVars, reticle, nClicks, nSessions, xrSession>>
    /\ UNCHANGED <<xrVars, histVars>>

\* loadChair of click k settles and the click handler runs to its end:
\* setChair, initAR (not awaited), setAnimationLoop(render)
loadChair(k) ==
    /\ objs[k].state = "loading"
    /\ \E ok \in BOOLEAN :
         /\ objs' = [objs EXCEPT ![k] = loadChairObject(@, ok)]
         /\ chair' = setChair(loadChairResult(k, ok))
         /\ ar' = [ar EXCEPT ![k] = initAR(loadChairResult(k, ok), ImmersiveBusy)]
    /\ animationLoop' = TRUE
    /\ fault' = IF ImmersiveBusy THEN "unhandledrejection" ELSE "none"
    /\ UNCHANGED <<startupVars, reticle, nClicks, nSessions, xrSession>>
    /\ UNCHANGED <<xrVars, histVars>>

onSessionStarted(c, session) == [c EXCEPT !.pc = "started", !.currentSession = session]

\* the session request of click k resolves: onSessionStarted
sessionStarted(k) ==
    /\ ar[k].pc = "requesting"
    /\ nSessions' = nSessions + 1
    /\ ar' = [ar EXCEPT ![k] = onSessionStarted(@, nSessions + 1)]
    /\ xrSession' = nSessions + 1
    /\ fault' = "none"
    /\ UNCHANGED <<startupVars, reticle, chair, objs, nClicks, animationLoop>>
    /\ UNCHANGED <<xrVars, histVars>>

\* the session request of click k rejects: nothing catches it
sessionRejected(k) ==
    /\ ar[k].pc = "requesting"
    /\ ar' = [ar EXCEPT ![k].pc = "rejected"]
    /\ fault' = "unhandledrejection"
    /\ UNCHANGED <<startupVars, reticle, chair, objs, nClicks, nSessions, xrSession,
                   animationLoop>>
    /\ UNCHANGED <<xrVars, histVars>>

\* onSessionEnded in the closure c
onSessionEnded(c) ==
    IF Truthy(c.currentSession)
    THEN [pc |-> "ended", currentSession |-> NULL,
          chair |-> IF Truthy(c.chair) THEN NULL ELSE c.chair]
    ELSE c

\* the objects onSessionEnded of the closures in owners removes from the scene
removedBy(owners) == {o \in ClickIds : \E k \in owners : ar[k].chair = o}

\* the active session ends (the browser or the user ends it): every 'end'
\* listener on it runs
sessionEnd ==
    /\ xrSession # NULL
    /\ LET owners == {k \in ClickIds : ar[k].currentSession = xrSession}
       IN  /\ ar' = [k \in ClickIds |-> IF k \in owners THEN onSessionEnded(ar[k]) ELSE ar[k]]
           /\ objs' = [o \in ClickIds |->
                         IF o \in removedBy(owners) THEN [objs[o] EXCEPT !.inScene = FALSE]
                                                    ELSE objs[o]]
           /\ animationLoop' = IF owners # {} THEN FALSE ELSE animationLoop
    /\ IF xrSession \in htListeners
       THEN /\ hitTestSourceRequested' = FALSE
            /\ hitTestSource' = NULL
            /\ htListeners' = htListeners \ {xrSession}
       ELSE UNCHANGED <<hitTestSourceRequested, hitTestSource, htListeners>>
    /\ xrSession' = NULL
    /\ fault' = "none"
    /\ UNCHANGED <<startupVars, reticle, chair, nClicks, nSessions, acq, histVars>>

\* ---- the placement controller: setupXR ----

\* variant: reads the rotation part of the matrix instead of the translation
setFromMatrixPosition_Rotation(m) == m.rot

setFromMatrixPosition(m) == m.pos

\* variant: onSelect tests the reticle before it reads reticle.visible
onSelectFault_Guarded(ch, ret) == FALSE

\* onSelect throws when it reads reticle.visible of an absent reticle
onSelectFault(ch, ret) == Truthy(ch) /\ ~ret.loaded

\* the condition of onSelect: chair && reticle.visible
onSelectPlaces(ch, ret) == Truthy(ch) /\ ret.loaded /\ ret.visible

\* variant: places the object without looking at reticle.visible
onSelect_AnyMarker(os, ch, ret) ==
    IF Truthy(ch) /\ ret.loaded
    THEN [os EXCEPT ![ch].position = setFromMatrixPosition(ret.matrix), ![ch].visible = TRUE]
    ELSE os

\* variant: places an object only the first time
onSelect_Once(os, ch, ret) ==
    IF onSelectPlaces(ch, ret) /\ ~os[ch].visible
    THEN [os EXCEPT ![ch].position = setFromMatrixPosition(ret.matrix), ![ch].visible = TRUE]
    ELSE os

onSelect(os, ch, ret) ==
    IF onSelectPlaces(ch, ret)
    THEN [os EXCEPT ![ch].position = setFromMatrixPosition(ret.matrix), ![ch].visible = TRUE]
    ELSE os

\* the controller of the active session fires 'select'
select ==
    /\ xrSession # NULL
    /\ objs' = onSelect(objs, chair, reticle)
    /\ fault' = IF onSelectFault(chair, reticle) THEN "TypeError" ELSE "none"
    /\ placements' = IF onSelectPlaces(chair, reticle)
                      THEN [placements EXCEPT ![chair] = IF @ = "never" THEN "once" ELSE "again"]
                      ELSE placements
    /\ UNCHANGED <<startupVars, reticle, chair, ar, nClicks, nSessions, xrSession,
                   animationLoop>>
    /\ UNCHANGED <<xrVars, lastQuery, lastHitPose, lastQuerySession, overlapped>>

\* variant: an empty result list leaves the reticle as it was
getHitTestResults_NoHide(ret, results) ==
    IF Len(results) # 0
    THEN LET pose == results[1]
         IN  IF pose = NullPose
             THEN [ret EXCEPT !.visible = TRUE]
             ELSE [ret EXCEPT !.visible = TRUE, !.matrix = pose]
    ELSE ret

\* getHitTestResults once frame.getHitTestResults has returned results.  With
\* a null pose, reticle.visible is set and reading pose.transform then throws,
\* so the matrix stays as it was.
getHitTestResults(ret, results) ==
    IF Len(results) # 0
    THEN LET pose == results[1]
         IN  IF pose = NullPose
             THEN [ret EXCEPT !.visible = TRUE]
             ELSE [ret EXCEPT !.visible = TRUE, !.matrix = pose]
    ELSE [ret EXCEPT !.visible = FALSE]

\* getHitTestResults throws at pose.transform when the pose is null
getHitTestResultsFault(results) == Len(results) # 0 /\ results[1] = NullPose

\* outcome of frame.getHitTestResults: no result ("miss"), a result with a
\* pose ("hit"), a result whose getPose is null ("nopose")
QueryOutcome(results) ==
    IF Len(results) = 0 THEN "miss"
    ELSE IF results[1] = NullPose THEN "nopose" ELSE "hit"

\* the query returned at least one result
Positive(q) == q \in {"hit", "nopose"}

\* the identifiers bound where render is defined: its parameters, the
\* parameters and locals of setupXR, and the module's imports and constants
RenderScope ==
    {"timestamp", "frame",
     "renderer", "scene", "reticle", "hitTestSourceRequested", "hitTestSource", "chair",
     "onSelect", "controller", "requestHitTestSource", "getHitTestResults", "render",
     "THREE", "GLTFLoader", "RGBELoader", "LoadingBar", "assetsPath", "hdrPath",
     "reticlePath", "initScene", "initCamera", "initRenderer", "setEnvironment",
     "loadReticle", "setupXR", "loadChair", "initAR", "initApp"}

\* the identifiers the last statement of render reads: renderer.render(scene, camera)
RenderCallUses == {"renderer", "scene", "camera"}

\* outcome of renderer.render(scene, camera): reading an unbound identifier throws
rendererRender == IF RenderCallUses \subseteq RenderScope THEN "none" ELSE "ReferenceError"

\* invocations of requestHitTestSource that have not been rejected
AcqCount ==
    LET RECURSIVE Sum(_)
        Sum(n) == IF n = 0 THEN 0
                  ELSE acq[n].refSpace + acq[n].source + acq[n].settled + Sum(n - 1)
    IN  Sum(MaxClicks)

\* requestHitTestSource up to its first await
requestHitTestSource ==
    [acq EXCEPT ![xrSession].refSpace = @ + 1]

\* render(timestamp, frame) with a frame of the active session.  A source of
\* an ended session makes frame.getHitTestResults throw or report nothing.
renderFrame ==
    /\ animationLoop
    /\ xrSession # NULL
    /\ hitTestSourceRequested \/ AcqCount < MaxAcq
    /\ acq' = IF ~hitTestSourceRequested THEN requestHitTestSource ELSE acq
    /\ IF hitTestSource = NULL
       THEN /\ fault' = rendererRender
            /\ UNCHANGED <<reticle, histVars>>
       ELSE \E results \in ResultLists, throws \in BOOLEAN :
              /\ hitTestSource # xrSession => (throws \/ Len(results) = 0)
              /\ hitTestSource = xrSession => ~throws
              /\ IF throws
                 THEN /\ fault' = "InvalidStateError"
                      /\ UNCHANGED <<reticle, histVars>>
                 ELSE /\ lastQuery' = QueryOutcome(results)
                      /\ lastHitPose' = IF QueryOutcome(results) = "hit" THEN results[1]
                                                                        ELSE lastHitPose
                      /\ lastQuerySession' = xrSession
                      /\ UNCHANGED <<overlapped, placements>>
                      /\ IF reticle.loaded
                         THEN /\ reticle' = getHitTestResults(reticle, results)
                              /\ fault' = IF getHitTestResultsFault(results) THEN "TypeError"
                                                                            ELSE rendererRender
                         ELSE /\ fault' = "TypeError"
                              /\ UNCHANGED reticle
    /\ UNCHANGED <<startupVars, hitTestSourceRequested, hitTestSource, htListeners, chair,
                   objs, ar, nClicks, nSessions, xrSession, animationLoop>>

\* render(timestamp) from the window's animation loop, no session presenting
renderNoFrame ==
    /\ animationLoop
    /\ xrSession = NULL
    /\ fault' = rendererRender
    /\ UNCHANGED <<startupVars, reticle, chair, objs, ar, nClicks, nSessions, xrSession,
                   animationLoop>>
    /\ UNCHANGED <<xrVars, histVars>>

\* session.requestReferenceSpace of an invocation for session s resolves and
\* session.requestHitTestSource is called, which rejects on an ended session
referenceSpaceResolved(s) ==
    /\ acq[s].refSpace > 0
    /\ acq' = IF s = xrSession
              THEN [acq EXCEPT ![s].refSpace = @ - 1, ![s].source = @ + 1]
              ELSE [acq EXCEPT ![s].refSpace = @ - 1, ![s].settled = @ + 1]
    /\ fault' = IF s = xrSession THEN "none" ELSE "unhandledrejection"
    /\ UNCHANGED <<startupVars, reticle, chair, objs, ar, nClicks, nSessions, xrSession,
                   animationLoop, hitTestSourceRequested, hitTestSource, htListeners,
                   histVars>>

\* session.requestHitTestSource of an invocation for session s resolves: the
\* source is stored, the 'end' listener added and the latch set
hitTestSourceResolved(s) ==
    /\ acq[s].source > 0
    /\ acq' = [acq EXCEPT ![s].source = @ - 1, ![s].settled = @ + 1]
    /\ hitTestSource' = s
    /\ htListeners' = IF s = xrSession THEN htListeners \cup {s} ELSE htListeners
    /\ hitTestSourceRequested' = TRUE
    /\ fault' = "none"
    /\ UNCHANGED <<startupVars, reticle, chair, objs, ar, nClicks, nSessions, xrSession,
                   animationLoop, histVars>>

\* session.requestReferenceSpace of an invocation for session s rejects:
\* requestHitTestSource ends there
referenceSpaceRejected(s) ==
    /\ acq[s].refSpace > 0
    /\ acq' = [acq EXCEPT ![s].refSpace = @ - 1]
    /\ fault' = "unhandledrejection"
    /\ UNCHANGED <<startupVars, reticle, chair, objs, ar, nClicks, nSessions, xrSession,
                   animationLoop, hitTestSourceRequested, hitTestSource, htListeners,
                   histVars>>

\* session.requestHitTestSource of an invocation for session s rejects
hitTestSourceRejected(s) ==
    /\ acq[s].source > 0
    /\ acq' = [acq EXCEPT ![s].source = @ - 1, ![s].settled = @ + 1]
    /\ fault' = "unhandledrejection"
    /\ UNCHANGED <<startupVars, reticle, chair, objs, ar, nClicks, nSessions, xrSession,
                   animationLoop, hitTestSourceRequested, hitTestSource, htListeners,
                   histVars>>

Next ==
    \/ setEnvironment
    \/ loadReticle
    \/ clickHandler
    \/ \E k \in ClickIds : loadChair(k)
    \/ \E k \in ClickIds : sessionStarted(k)
    \/ \E k \in ClickIds : sessionRejected(k)
    \/ sessionEnd
    \/ select
    \/ renderFrame
    \/ renderNoFrame
    \/ \E s \in SessionIds : referenceSpaceResolved(s)
    \/ \E s \in SessionIds : hitTestSourceResolved(s)
    \/ \E s \in SessionIds : referenceSpaceRejected(s)
    \/ \E s \in SessionIds : hitTestSourceRejected(s)

Spec == Init /\ [][Next]_vars

TypeOK ==
    /\ initPc \in {"setEnvironment", "loadReticle", "ready"}
    /\ reticle \in [loaded : BOOLEAN, visible : BOOLEAN, matrix : Pose]
    /\ hitTestSourceRequested \in BOOLEAN
    /\ hitTestSource \in {NULL} \cup SessionIds
    /\ chair \in {NULL, UNDEFINED} \cup ClickIds
    /\ xrSession \in {NULL} \cup SessionIds
    /\ animationLoop \in BOOLEAN

\* ---- derived quantities ----

\* calls of session.requestHitTestSource made for session s (line 92 reached)
SourceRequests(s) == acq[s].source + acq[s].settled

\* a session request is pending for some click
RequestInFlight == \E k \in ClickIds : ar[k].pc = "requesting"

\* the click handler of click k reaches initAR in this step
InitARInvoked(k) == ar[k].pc = "none" /\ ar'[k].pc # "none"

\* initAR of click k calls navigator.xr.requestSession in this step
RequestIssued(k) == InitARInvoked(k) /\ ar'[k].pc \in {"requesting", "rejected"}

\* the pose of an object: its position and its own orientation
ObjPose(o) == [pos |-> o.position, rot |-> o.rotation]

\* ---- the claims ----

\* C1: within one session, session.requestHitTestSource is called at most
\* once, however many frames are rendered and however the acquisition is timed.
C1_RequestedAtMostOnce == \A s \in SessionIds : SourceRequests(s) <= 1

\* C2: when the click handler reaches initAR while a session is active, initAR
\* ends that session and issues no navigator.xr.requestSession call.
C2_ToggleEndsSession ==
    [][\A k \in ClickIds :
         (xrSession # NULL /\ InitARInvoked(k)) => (ar'[k].pc = "ending" /\ ~RequestIssued(k))]_vars

\* C3: at most one session is held or being requested, and a session request
\* is issued only when no session is active and no request is in flight.
C3_SingleSessionSlot ==
    [][/\ Cardinality({k \in ClickIds : ar[k].pc \in {"requesting", "started"}}) <= 1
       /\ \A k \in ClickIds : RequestIssued(k) => (xrSession = NULL /\ ~RequestInFlight)]_vars

\* C4: once the end event of a session has been handled, no closure holds a
\* session, no loaded object is left in the scene and the animation loop is unbound.
C4_EndCleansUp ==
    [][(xrSession # NULL /\ xrSession' = NULL) =>
         /\ \A k \in ClickIds : ar'[k].currentSession = NULL
         /\ \A o \in ClickIds : ~objs'[o].inScene
         /\ ~animationLoop']_vars

\* C5: the loaded marker is visible exactly when the latest hit-test query
\* returned at least one result (with or without a pose); it is hidden before
\* any query and while it is not loaded.
C5_MarkerVisibleIffHit ==
    /\ reticle.loaded => (reticle.visible <=> Positive(lastQuery))
    /\ ~reticle.loaded => ~reticle.visible
    /\ lastQuery = "none" => ~reticle.visible

C5_Witness ==
    /\ reticle.loaded /\ ~reticle.visible
    /\ lastQuery = "miss"
    /\ reticle.matrix # Identity

\* C6: a step changes an object's position or visibility only if it is a
\* selection made while the object reference is set and the marker is visible,
\* and every such selection puts the referenced object at the marker's position
\* and reveals it; a selection without both preconditions changes no object.
C6_PlacementIffPreconditions ==
    [][/\ \A o \in ClickIds :
            (objs'[o].position # objs[o].position \/ objs'[o].visible # objs[o].visible) =>
               /\ select
               /\ o = chair /\ reticle.loaded /\ reticle.visible
               /\ objs'[o].position = reticle.matrix.pos
               /\ objs'[o].visible
       /\ (select /\ Truthy(chair) /\ reticle.loaded /\ reticle.visible) =>
               /\ objs'[chair].position = reticle.matrix.pos
               /\ objs'[chair].visible
       /\ (select /\ ~(Truthy(chair) /\ reticle.loaded /\ reticle.visible)) => objs' = objs]_vars

C6_Witness ==
    \E o \in ClickIds :
        /\ objs[o].visible /\ objs[o].position = 1
        /\ placements[o] = "once"
        /\ \E p \in ClickIds : p # o /\ objs[p].inScene /\ ~objs[p].visible /\ placements[p] = "never"

\* C7 as stated: once an object has been placed (it is visible), no later
\* step changes its position.
C7_PlacedOnce ==
    [][\A o \in ClickIds : objs[o].visible => objs'[o].position = objs[o].position]_vars

\* C7 amended: every selection made while the object reference is set and the
\* marker is visible moves the object to the marker's current position, also
\* when the object has been placed before.
C7_PlacedOnEverySelection ==
    [][(select /\ Truthy(chair) /\ reticle.loaded /\ reticle.visible /\ objs[chair].visible) =>
          (objs'[chair].position = reticle.matrix.pos /\ placements'[chair] = "again")]_vars

C7_Witness ==
    \E o \in ClickIds :
        /\ placements[o] = "again"
        /\ objs[o].visible /\ objs[o].position = 0
        /\ reticle.visible /\ reticle.matrix.pos = 0

\* C8: while no session is active the hit-test source is null and the latch
\* is false, a source that is held belongs to the active session, and a later
\* session requests a source of its own at most once and whenever its latch is set.
C8_SourceReleasedOnEnd ==
    /\ xrSession = NULL => (hitTestSource = NULL /\ ~hitTestSourceRequested)
    /\ hitTestSource # NULL => hitTestSource = xrSession
    /\ \A s \in SessionIds \ {1} : SourceRequests(s) <= 1
    /\ (xrSession \in SessionIds \ {1} /\ hitTestSourceRequested) => SourceRequests(xrSession) = 1

\* C9 as stated: a click adds the object chair<id> hidden to the scene and a
\* session starts; a frame with a positive result shows the marker at the
\* reported pose; a selection then shows the object at that same pose.
C9_EndToEndPose ==
    [][/\ \A k \in ClickIds :
            (objs[k].state = "loading" /\ objs'[k].state = "loaded") =>
               (objs'[k].inScene /\ ~objs'[k].visible /\ objs'[k].model = objs[k].model)
       /\ \A k \in ClickIds :
            (sessionStarted(k) /\ objs[k].state = "loaded") =>
               (xrSession' # NULL /\ objs'[k].inScene /\ ~objs'[k].visible)
       /\ (renderFrame /\ reticle.loaded /\ hitTestSource = xrSession /\ lastQuery' = "hit") =>
               (reticle'.visible /\ reticle'.matrix = lastHitPose')
       /\ (select /\ Truthy(chair) /\ reticle.loaded /\ reticle.visible /\ lastHitPose # NullPose) =>
               (objs'[chair].visible /\ ObjPose(objs'[chair]) = lastHitPose)]_vars

\* C9 amended: as above, but the selection shows the object at the position of
\* the latest reported hit-test pose; the orientation of that pose is not
\* applied.  A positive result that reports no pose shows the marker at the
\* pose it had.
C9_EndToEndPosition ==
    [][/\ \A k \in ClickIds :
            (objs[k].state = "loading" /\ objs'[k].state = "loaded") =>
               (objs'[k].inScene /\ ~objs'[k].visible /\ objs'[k].model = objs[k].model)
       /\ \A k \in ClickIds :
            (sessionStarted(k) /\ objs[k].state = "loaded") =>
               (xrSession' # NULL /\ objs'[k].inScene /\ ~objs'[k].visible)
       /\ (renderFrame /\ reticle.loaded /\ hitTestSource = xrSession /\ lastQuery' = "hit") =>
               (reticle'.visible /\ reticle'.matrix = lastHitPose')
       /\ (renderFrame /\ reticle.loaded /\ hitTestSource = xrSession /\ lastQuery' = "nopose") =>
               (reticle'.visible /\ reticle'.matrix = reticle.matrix)
       /\ (select /\ Truthy(chair) /\ reticle.loaded /\ reticle.visible /\ lastHitPose # NullPose) =>
               (objs'[chair].visible /\ objs'[chair].position = lastHitPose.pos)]_vars

C9_Witness ==
    \E k \in ClickIds :
        /\ ar[k].pc = "started" /\ xrSession = ar[k].currentSession
        /\ chair = k /\ objs[k].model = MaxChairId
        /\ objs[k].inScene /\ objs[k].visible
        /\ reticle.visible /\ reticle.matrix = lastHitPose
        /\ lastHitPose = [pos |-> 1, rot |-> 1]
        /\ objs[k].position = 1 /\ objs[k].rotation = 0

\* C10: while no session is active and no session request is in flight, the
\* animation loop is not bound.
C10_LoopOnlyWithSession ==
    (xrSession = NULL /\ ~RequestInFlight) => ~animationLoop

\* ---- startup order ----

\* initApp is suspended in setEnvironment / in loadReticle
EnvironmentPending == initPc = "setEnvironment"
MarkerPending == initPc = "loadReticle"
\* setupXR has run
XRSetupDone == initPc = "ready"

\* C11 as stated: the two loaders run concurrently, so while either one is
\* pending the other one can settle, and XR setup follows both.
C11_EitherOrder ==
    /\ EnvironmentPending => ENABLED loadReticle
    /\ (MarkerPending /\ environment = "pending") => ENABLED setEnvironment
    /\ XRSetupDone => environment # "pending"

\* C11 amended: the loaders run one after the other.  The marker load can
\* settle only once environment setup has settled, and XR setup has run only
\* when both have settled.
C11_EnvironmentThenMarker ==
    /\ ENABLED loadReticle => environment # "pending"
    /\ MarkerPending => environment # "pending"
    /\ XRSetupDone => environment # "pending"
    /\ ~XRSetupDone => (~reticle.loaded /\ nClicks = 0)

C11_Witness ==
    /\ MarkerPending /\ ENABLED loadReticle
    /\ environment = "set"
    /\ ~reticle.loaded

\* C12: a failed load of the environment map, the marker or an object model
\* raises nothing and the caller goes on: initApp to loadReticle and to
\* setupXR, the click handler to setChair, the session request and
\* setAnimationLoop, with the absent value as the loader's result.
C12_LoadFailureContinues ==
    [][/\ (environment = "pending" /\ environment' = "failed") =>
             (initPc' = "loadReticle" /\ fault' = "none")
       /\ (MarkerPending /\ initPc' # initPc /\ ~reticle'.loaded) =>
             (initPc' = "ready" /\ fault' = "none")
       /\ \A k \in ClickIds :
             (objs[k].state = "loading" /\ objs'[k].state = "failed") =>
                /\ ~objs'[k].inScene
                /\ chair' = UNDEFINED
                /\ RequestIssued(k) /\ ar'[k].chair = UNDEFINED
                /\ animationLoop']_vars

C12_Witness ==
    /\ initPc = "ready"
    /\ environment = "failed"
    /\ ~reticle.loaded
    /\ \E k \in ClickIds :
         /\ objs[k].state = "failed"
         /\ ar[k].pc = "started" /\ ar[k].chair = UNDEFINED
         /\ chair = UNDEFINED
         /\ animationLoop

\* the closure whose onSessionEnded handles the end of the active session
\* holds an absent object
EndsWithAbsentObject ==
    \E k \in ClickIds : ar[k].currentSession = xrSession /\ ar[k].chair = UNDEFINED

\* C13 as stated, for the placeable object: with the marker loaded, a
\* selection input or a session end that meets an object reference whose load
\* failed dereferences it and faults.
C13_AbsentObjectFaults ==
    [][(reticle.loaded /\ ((select /\ chair = UNDEFINED) \/ (sessionEnd /\ EndsWithAbsentObject)))
          => fault' = "TypeError"]_vars

\* C13 amended: only the absent marker faults.  A selection with an object
\* set, and a frame whose hit-test query returns, throw a TypeError when the
\* marker failed to load; with the marker loaded a TypeError occurs only in a
\* frame whose hit-test result has no pose; a selection without an object and
\* a session end never fault, also when the object's load failed.
C13_AbsentMarkerFaults ==
    [][/\ (select /\ Truthy(chair) /\ ~reticle.loaded) => fault' = "TypeError"
       /\ (renderFrame /\ ~reticle.loaded /\ hitTestSource = xrSession) => fault' = "TypeError"
       /\ fault' = "TypeError" => (~reticle.loaded \/ (renderFrame /\ lastQuery' = "nopose"))
       /\ (select /\ ~Truthy(chair)) => (fault' = "none" /\ objs' = objs)
       /\ sessionEnd => fault' = "none"]_vars

C13_Witness ==
    /\ ~reticle.loaded
    /\ fault = "TypeError"
    /\ xrSession # NULL /\ Truthy(chair)
    /\ \E k \in ClickIds :
         /\ objs[k].state = "failed"
         /\ ar[k].pc = "ended" /\ ar[k].chair = UNDEFINED

\* the placeable objects in the scene
InScene == {o \in ClickIds : objs[o].inScene}

\* C14: the scene never holds more than one placeable object, and while no
\* session is active or being requested it holds none.
C14_AtMostOneObject ==
    /\ Cardinality(InScene) <= 1
    /\ (xrSession = NULL /\ ~RequestInFlight) => InScene = {}

\* C15: while a session is active the marker is visible only if the latest
\* hit-test query that returned was made in that session and reported a
\* result, so a selection places the object only at a pose of its own session.
C15_NoPoseCarriedOver ==
    (xrSession # NULL /\ reticle.visible) => (lastQuerySession = xrSession /\ Positive(lastQuery))

\* every load started by a click has settled, with an object
AllLoadsSucceeded == \A k \in 1..nClicks : objs[k].state = "loaded"

\* C16: after overlapping clicks, once every load has settled, the object a
\* selection would place is the object of the most recent click, and the
\* closure that handles the end of the active session removes that same object.
C16_LatestClickPlaced ==
    (overlapped /\ AllLoadsSucceeded) =>
        /\ chair = nClicks
        /\ \A k \in ClickIds : (xrSession # NULL /\ ar[k].currentSession = xrSession) => ar[k].chair = chair

\* C17: with the marker loaded, every invocation of render returns without a
\* fault, with or without a frame and with or without a hit-test source.
C17_RenderCompletes ==
    [][((renderFrame \/ renderNoFrame) /\ reticle.loaded) => fault' = "none"]_vars

====
